---- MODULE Spec2Model ----
(***************************************************************************)
(* Model of the semantic-release-requests plugin: the configuration        *)
(* resolver (ensureDefault), the configuration validator (verifyConfig),   *)
(* the git adapter and the orchestration layer (processRequest,            *)
(* getBranches, createRequests) driven by the prepare and success hooks.   *)
(*                                                                         *)
(* JavaScript values are tagged records [t |-> type, v |-> payload].       *)
(* A JavaScript string is a sequence of tokens, "" being the empty         *)
(* sequence, so that emptiness, concatenation, prefix and substring tests  *)
(* are computed and not assumed.                                           *)
(***************************************************************************)
EXTENDS Integers, Sequences, FiniteSets, TLC

VARIABLES
    globalConfig,   \* the plugin configuration handed over by the host
    env,            \* context.env
    context,        \* context.branch.name and context.nextRelease.version
    lsStdout,       \* what git ls-remote --heads prints
    localBranches,  \* the branches of the working directory
    head,           \* the branch checked out in the working directory
    config,         \* the configuration resolved by ensureDefault
    verifyErrors,   \* the errors aggregated by verifyConfig
    hook,           \* the hook the host is running
    pc,             \* the position of the control flow
    ops,            \* the git commands issued so far
    calls,          \* the createPR calls issued so far
    log,            \* the lines written through context.logger
    promises,       \* the promises of prepare, processRequest, createRequests and success,
                    \* and the completion of getBranches (returned or threw)
    branches,       \* the result of getBranches
    idx,            \* the position of the loop of createRequests
    errors          \* the errors collected by createRequests

vars == <<globalConfig, env, context, lsStdout, localBranches, head,
          config, verifyErrors,
          hook, pc, ops, calls, log, promises, branches, idx, errors>>

inputVars == <<globalConfig, env, context, lsStdout>>

(***************************************************************************)
(* Bounds of the model.                                                    *)
(***************************************************************************)
\* largest number of environment variables set at once
MaxEnvSet == 2
\* largest number of lines printed by git ls-remote
MaxRemote == 2
\* largest number of configured candidates
MaxCandidates == 2

(***************************************************************************)
(* JavaScript values.                                                      *)
(***************************************************************************)
Undef == [t |-> "undefined", v |-> <<>>]
Str(s) == [t |-> "string", v |-> s]
Bool(b) == [t |-> "boolean", v |-> b]
Arr(a) == [t |-> "array", v |-> a]
\* a plain object such as { key: "value" }
Obj == [t |-> "object", v |-> <<>>]

\* value ?? other
Nullish(x) == x.t = "undefined"
Coalesce(x, y) == IF Nullish(x) THEN y ELSE x

\* if (value)
Truthy(x) ==
    CASE x.t = "undefined" -> FALSE
      [] x.t = "string" -> x.v # <<>>
      [] x.t = "boolean" -> x.v
      [] OTHER -> TRUE

\* lodash isString, isArray, isBoolean
isString(x) == x.t = "string"
isArray(x) == x.t = "array"
isBoolean(x) == x.t = "boolean"

(***************************************************************************)
(* src/lib/models/config.ts                                                *)
(***************************************************************************)
BITBUCKET == <<"bitbucket">>
BITBUCKET_CLOUD == <<"bitbucket-cloud">>
GITEA == <<"gitea">>
GITHUB == <<"github">>
GITLAB == <<"gitlab">>
NULL == <<>>

\* Object.values(Platform), in declaration order
Platform == <<BITBUCKET, BITBUCKET_CLOUD, GITEA, GITHUB, GITLAB, NULL>>

defaultTitle == <<"Release candidate branch ${ from }">>
defaultCommit == <<"chore(release): release changes for v${ nextRelease.version } [skip ci]">>

\* the keys of RequestsConfig, in the order ensureDefault writes them
ConfigKeys == <<"apiPathPrefix", "assets", "baseUrl", "candidates", "commit", "debug",
                "dryRun", "platform", "repositoryUrl", "title", "token">>

UrlVars == <<"BITBUCKET_URL", "BITBUCKET_CLOUD_URL", "GITEA_URL", "GH_URL", "GITHUB_URL",
             "GITHUB_API_URL", "GL_URL", "GITLAB_URL", "CI_SERVER_URL">>
TokenVars == <<"BB_TOKEN", "BITBUCKET_TOKEN", "GITEA_TOKEN", "GH_TOKEN", "GITHUB_TOKEN",
               "GL_TOKEN", "GITLAB_TOKEN">>
EnvVars == UrlVars \o TokenVars

Range(s) == {s[i] : i \in DOMAIN s}

(***************************************************************************)
(* src/lib/verify-config.ts: ensureDefault                                 *)
(***************************************************************************)
\* the part of getURLs that reads the environment
envURLs(c, e) ==
    LET githubUrl == Coalesce(e["GH_URL"], Coalesce(e["GITHUB_URL"], e["GITHUB_API_URL"]))
        gitlabUrl == Coalesce(e["GL_URL"], Coalesce(e["GITLAB_URL"], e["CI_SERVER_URL"]))
    IN  IF Truthy(e["BITBUCKET_URL"])
            THEN <<Str(BITBUCKET), e["BITBUCKET_URL"], Coalesce(c.apiPathPrefix, Str(<<"/rest/api/1.0">>))>>
        ELSE IF Truthy(e["BITBUCKET_CLOUD_URL"])
            THEN <<Str(BITBUCKET_CLOUD), e["BITBUCKET_CLOUD_URL"], Coalesce(c.apiPathPrefix, Str(<<"/2.0">>))>>
        ELSE IF Truthy(e["GITEA_URL"])
            THEN <<Str(GITEA), e["GITEA_URL"], Coalesce(c.apiPathPrefix, Str(<<"/api/v1">>))>>
        ELSE IF Truthy(githubUrl)
            THEN <<Str(GITHUB), githubUrl, Coalesce(c.apiPathPrefix, Str(<<>>))>>
        ELSE IF Truthy(gitlabUrl)
            THEN <<Str(GITLAB), gitlabUrl, Coalesce(c.apiPathPrefix, Str(<<"/api/v4">>))>>
        ELSE <<Str(NULL), Str(<<>>), Str(<<>>)>>

\* getURLs reading the environment before config.baseUrl
getURLsEnvFirst(c, e) ==
    IF Truthy(envURLs(c, e)[2])
        THEN envURLs(c, e)
        ELSE <<Str(NULL), Coalesce(c.baseUrl, Str(<<>>)), Coalesce(c.apiPathPrefix, Str(<<>>))>>

getURLs(c, e) ==
    IF Truthy(c.baseUrl)
        THEN <<Str(NULL), c.baseUrl, Coalesce(c.apiPathPrefix, Str(<<>>))>>
        ELSE envURLs(c, e)

envToken(e) ==
    Coalesce(e["BB_TOKEN"], Coalesce(e["BITBUCKET_TOKEN"], Coalesce(e["GITEA_TOKEN"],
    Coalesce(e["GH_TOKEN"], Coalesce(e["GITHUB_TOKEN"], Coalesce(e["GL_TOKEN"],
    Coalesce(e["GITLAB_TOKEN"], Str(<<>>))))))))

\* ensureDefault taking the token of the configuration when there is one
ensureDefaultConfigToken(c, e) ==
    LET urls == getURLs(c, e)
    IN  [apiPathPrefix |-> urls[3],
         assets |-> Coalesce(c.assets, Arr(<<>>)),
         baseUrl |-> urls[2],
         candidates |-> Coalesce(c.candidates, Arr(<<>>)),
         commit |-> Coalesce(c.commit, Str(defaultCommit)),
         debug |-> Coalesce(c.debug, Bool(FALSE)),
         dryRun |-> Coalesce(c.dryRun, Bool(FALSE)),
         platform |-> Coalesce(c.platform, urls[1]),
         repositoryUrl |-> Coalesce(c.repositoryUrl, Str(<<>>)),
         title |-> Coalesce(c.title, Str(defaultTitle)),
         token |-> Coalesce(c.token, envToken(e))]

\* ensureDefault taking the platform getURLs inferred, whatever config.platform is
ensureDefaultInferredPlatform(c, e) ==
    LET urls == getURLs(c, e)
    IN  [apiPathPrefix |-> urls[3],
         assets |-> Coalesce(c.assets, Arr(<<>>)),
         baseUrl |-> urls[2],
         candidates |-> Coalesce(c.candidates, Arr(<<>>)),
         commit |-> Coalesce(c.commit, Str(defaultCommit)),
         debug |-> Coalesce(c.debug, Bool(FALSE)),
         dryRun |-> Coalesce(c.dryRun, Bool(FALSE)),
         platform |-> urls[1],
         repositoryUrl |-> Coalesce(c.repositoryUrl, Str(<<>>)),
         title |-> Coalesce(c.title, Str(defaultTitle)),
         token |-> envToken(e)]

ensureDefault(c, e) ==
    LET urls == getURLs(c, e)
    IN  [apiPathPrefix |-> urls[3],
         assets |-> Coalesce(c.assets, Arr(<<>>)),
         baseUrl |-> urls[2],
         candidates |-> Coalesce(c.candidates, Arr(<<>>)),
         commit |-> Coalesce(c.commit, Str(defaultCommit)),
         debug |-> Coalesce(c.debug, Bool(FALSE)),
         dryRun |-> Coalesce(c.dryRun, Bool(FALSE)),
         platform |-> Coalesce(c.platform, urls[1]),
         repositoryUrl |-> Coalesce(c.repositoryUrl, Str(<<>>)),
         title |-> Coalesce(c.title, Str(defaultTitle)),
         token |-> envToken(e)]

(***************************************************************************)
(* Errors.  Every error value has the same shape; class names the          *)
(* constructor: "Error" is a plain Error raised by git or by the request   *)
(* adapter, "AggregateError" the class exported by the aggregate-error     *)
(* package.                                                                *)
(***************************************************************************)
NoError == [class |-> "none", code |-> <<>>, message |-> <<>>, errors |-> <<>>]
SemanticReleaseError(message, code) ==
    [class |-> "SemanticReleaseError", code |-> code, message |-> message, errors |-> <<>>]
AggregateError(errs) ==
    [class |-> "AggregateError", code |-> <<>>, message |-> <<>>, errors |-> errs]
PlainError(message) ==
    [class |-> "Error", code |-> <<>>, message |-> message, errors |-> <<>>]

(***************************************************************************)
(* src/lib/error.ts                                                        *)
(***************************************************************************)
\* String.prototype.toUpperCase on the configuration keys
toUpperCase(key) ==
    CASE key = "apiPathPrefix" -> "APIPATHPREFIX"
      [] key = "assets" -> "ASSETS"
      [] key = "baseUrl" -> "BASEURL"
      [] key = "candidates" -> "CANDIDATES"
      [] key = "commit" -> "COMMIT"
      [] key = "debug" -> "DEBUG"
      [] key = "dryRun" -> "DRYRUN"
      [] key = "platform" -> "PLATFORM"
      [] key = "repositoryUrl" -> "REPOSITORYURL"
      [] key = "title" -> "TITLE"
      [] key = "token" -> "TOKEN"

\* the message of configErrors[key](value)
configErrors(key) ==
    CASE key = "apiPathPrefix" -> <<"Invalid 'apiPathPrefix' configuration.">>
      [] key = "assets" -> <<"Invalid 'assets' configuration.">>
      [] key = "baseUrl" -> <<"Invalid 'baseUrl' configuration.">>
      [] key = "candidates" -> <<"Invalid 'candidates' configuration.">>
      [] key = "commit" -> <<"Invalid 'commit' configuration.">>
      [] key = "debug" -> <<"Invalid 'debug' configuration (coming from semantic-release options).">>
      [] key = "dryRun" -> <<"Invalid 'dryRun' configuration (coming from semantic-release options).">>
      [] key = "platform" -> <<"Invalid 'platform' configuration.">>
      [] key = "repositoryUrl" -> <<"Invalid 'repositoryUrl' configuration (coming from semantic-release options).">>
      [] key = "title" -> <<"Invalid 'title' configuration.">>
      [] key = "token" -> <<"Invalid 'token' configuration.">>

getConfigError(key) ==
    SemanticReleaseError(configErrors(key), <<"EINVALID", toUpperCase(key)>>)

(***************************************************************************)
(* src/lib/verify-config.ts: validators and verifyConfig                   *)
(***************************************************************************)
\* value !== ""
stringNotEmpty(x) == IF x.t = "string" THEN x.v # <<>> ELSE TRUE

\* an element of the candidates array is { from, to }: [t |-> "candidate", v |-> <<from, to>>]
Candidate(from, to) == [t |-> "candidate", v |-> <<from, to>>]
fromOf(target) == IF target.t = "candidate" THEN target.v[1] ELSE Undef
toOf(target) == IF target.t = "candidate" THEN target.v[2] ELSE Undef

\* validCandidatesArray looking at the from field only
validCandidatesArrayFromOnly(candidates) ==
    Len(SelectSeq(candidates.v,
            LAMBDA target : isString(fromOf(target)) /\ stringNotEmpty(fromOf(target))))
        = Len(candidates.v)

validCandidatesArray(candidates) ==
    Len(SelectSeq(candidates.v,
            LAMBDA target : /\ isString(fromOf(target)) /\ stringNotEmpty(fromOf(target))
                            /\ isString(toOf(target)) /\ stringNotEmpty(toOf(target))))
        = Len(candidates.v)

validPlatform(stringPlatform) ==
    LET known == SelectSeq(Platform, LAMBDA platform : platform # NULL)
        found == SelectSeq(known, LAMBDA platform : platform = stringPlatform.v)
    IN  \* Boolean(find(...)): a platform was found and it is a non-empty string
        Len(found) > 0 /\ Head(found) # <<>>

validStringArray(array) ==
    Len(SelectSeq(array.v, LAMBDA str : isString(str) /\ stringNotEmpty(str))) = Len(array.v)

validators(key) ==
    CASE key = "apiPathPrefix" -> <<"isString">>
      [] key = "assets" -> <<"isArray", "validStringArray">>
      [] key = "baseUrl" -> <<"isString", "stringNotEmpty">>
      [] key = "candidates" -> <<"isArray", "validCandidatesArray">>
      [] key = "commit" -> <<"isString", "stringNotEmpty">>
      [] key = "debug" -> <<"isBoolean">>
      [] key = "dryRun" -> <<"isBoolean">>
      [] key = "platform" -> <<"isString", "validPlatform">>
      [] key = "repositoryUrl" -> <<"isString", "stringNotEmpty">>
      [] key = "title" -> <<"isString", "stringNotEmpty">>
      [] key = "token" -> <<"isString", "stringNotEmpty">>

validation(name, value) ==
    CASE name = "isString" -> isString(value)
      [] name = "isArray" -> isArray(value)
      [] name = "isBoolean" -> isBoolean(value)
      [] name = "stringNotEmpty" -> stringNotEmpty(value)
      [] name = "validStringArray" -> validStringArray(value)
      [] name = "validCandidatesArray" -> validCandidatesArray(value)
      [] name = "validPlatform" -> validPlatform(value)

\* the body of the reduce callback: the error of the first failing validation, if any
RECURSIVE optionErrors(_, _, _)
optionErrors(option, value, i) ==
    IF i > Len(validators(option)) THEN <<>>
    ELSE IF ~validation(validators(option)[i], value) THEN <<getConfigError(option)>>
    ELSE optionErrors(option, value, i + 1)

\* Object.entries(config).reduce(...): the errors, in key order
RECURSIVE verifyReduce(_, _)
verifyReduce(c, k) ==
    IF k > Len(ConfigKeys) THEN <<>>
    ELSE optionErrors(ConfigKeys[k], c[ConfigKeys[k]], 1) \o verifyReduce(c, k + 1)

\* verifyConfig: the errors it aggregates; it throws iff the result is not empty
verifyConfig(c) == verifyReduce(c, 1)

(***************************************************************************)
(* The git adapter: ls                                                     *)
(***************************************************************************)
RefsHeads == "refs/heads/"

startsWith(str, prefix) == Len(str) >= 1 /\ str[1] = prefix

\* [...new Set(list)]: first occurrences, in order
RECURSIVE dedupe(_)
dedupe(list) ==
    IF list = <<>> THEN <<>>
    ELSE LET front == dedupe(SubSeq(list, 1, Len(list) - 1))
             last == list[Len(list)]
         IN  IF last \in Range(front) THEN front ELSE Append(front, last)

\* lines.map(line => line.split("\t")).flat()
RECURSIVE flat(_)
flat(lines) == IF lines = <<>> THEN <<>> ELSE Head(lines) \o flat(Tail(lines))

\* ls returning the names as git lists them, without [...new Set(branches)]
lsKeepsDuplicates(stdout) ==
    LET fields == flat(stdout)
        heads == SelectSeq(fields, LAMBDA branch : startsWith(branch, RefsHeads))
    IN  [i \in DOMAIN heads |-> Tail(heads[i])]

\* ls on the output of git ls-remote: a sequence of lines, each a sequence of fields
ls(stdout) ==
    LET fields == flat(stdout)
        heads == SelectSeq(fields, LAMBDA branch : startsWith(branch, RefsHeads))
        names == [i \in DOMAIN heads |-> Tail(heads[i])]
    IN  dedupe(names)

(***************************************************************************)
(* String.prototype.match with a pattern made of literals and "|"          *)
(***************************************************************************)
Bar == "|"

Alternatives(pattern) ==
    LET bars == {0} \cup {i \in DOMAIN pattern : pattern[i] = Bar} \cup {Len(pattern) + 1}
    IN  {SubSeq(pattern, i + 1, j - 1) :
            <<i, j>> \in {b \in bars \X bars :
                            b[1] < b[2] /\ ~\E k \in bars : b[1] < k /\ k < b[2]}}

IsInfix(alt, str) ==
    \E i \in 0..(Len(str) - Len(alt)) : SubSeq(str, i + 1, i + Len(alt)) = alt

match(str, pattern) == \E alt \in Alternatives(pattern) : IsInfix(alt, str)

(***************************************************************************)
(* src/lib/requests.ts: getBranches                                        *)
(***************************************************************************)
\* config.candidates.filter(branch => releaseBranch.match(branch.from))
appropriatesOf(releaseBranch, c) ==
    SelectSeq(c.candidates.v, LAMBDA branch : match(releaseBranch, fromOf(branch).v))

\* appropriates.map(target => target.to).find(target => branch.match(target)), as a condition
findTarget(appropriates, branch) ==
    LET targets == [i \in DOMAIN appropriates |-> toOf(appropriates[i])]
        hits == SelectSeq(targets, LAMBDA target : match(branch, target.v))
    IN  Len(hits) > 0 /\ Truthy(Head(hits))

\* filterBranches without the filter on the released branch
filterBranchesKeepsRelease(releaseBranch, appropriates, remote) ==
    SelectSeq(remote, LAMBDA branch : findTarget(appropriates, branch))

\* the two filters applied to the result of ls
filterBranches(releaseBranch, appropriates, remote) ==
    LET others == SelectSeq(remote, LAMBDA branch : releaseBranch # branch)
    IN  SelectSeq(others, LAMBDA branch : findTarget(appropriates, branch))

(***************************************************************************)
(* Promises, git commands, createPR calls and log lines.                   *)
(***************************************************************************)
Promise(state, reason) == [state |-> state, reason |-> reason]
NotStarted == Promise("none", NoError)
Pending == Promise("pending", NoError)
Fulfilled == Promise("fulfilled", NoError)
Rejected(reason) == Promise("rejected", reason)

GitOp(op, arg, dry) == [op |-> op, arg |-> arg, dry |-> dry]
Call(by, from, to, state) == [by |-> by, from |-> from, to |-> to, state |-> state]
Line(level, about) == [level |-> level, about |-> about]

\* an error raised by execaSync or by the request adapter
GitError == PlainError(<<"an error message">>)

NoConfig == [k \in Range(ConfigKeys) |-> Undef]

releaseBranch == context.branch
\* `release/${releaseBranch}/${context.nextRelease.version}`
changesBranch == <<"release/">> \o releaseBranch \o <<"/">> \o context.version

EPUSHASSETS ==
    SemanticReleaseError(<<"Failed to add release assets to branch. Not proceeded with release.">>,
                         <<"EPUSHASSETS">>)
EPULLREQUEST(from, to) ==
    SemanticReleaseError(<<"Failed to create pull request from '">> \o from \o <<"' to '">>
                            \o to \o <<"'.">>,
                         <<"EPULLREQUEST">>)
ERCPULLREQUESTS ==
    SemanticReleaseError(<<"Failed to create release candidates pull requests.">>,
                         <<"ERCPULLREQUESTS">>)

\* the JavaScript stack is empty: no synchronous code of the plugin is running
StackEmpty == pc \in {"idle", "s_await"}

(***************************************************************************)
(* The host starts a hook.                                                 *)
(***************************************************************************)
StartPrepare ==
    /\ pc = "idle"
    /\ promises.prepare.state = "none"
    /\ promises.success.state = "none"
    /\ hook' = "prepare"
    /\ pc' = "p_verify"
    /\ promises' = [promises EXCEPT !.prepare = Pending]
    /\ UNCHANGED <<inputVars, localBranches, head, config, verifyErrors, ops, calls, log,
                   branches, idx, errors>>

StartSuccess ==
    /\ pc = "idle"
    /\ promises.success.state = "none"
    /\ promises.prepare.state \in {"none", "fulfilled"}
    /\ hook' = "success"
    /\ pc' = "s_verify"
    /\ promises' = [promises EXCEPT !.success = Pending]
    /\ UNCHANGED <<inputVars, localBranches, head, config, verifyErrors, ops, calls, log,
                   branches, idx, errors>>

(***************************************************************************)
(* index.ts: verifyConditions, as called first by prepare and by success.  *)
(* verifyConfig throws outside any try block: the hook's promise rejects.  *)
(***************************************************************************)
\* verifyConditions without the throw of verifyConfig
verifyConditionsNoThrow(h, next) ==
    /\ config' = ensureDefault(globalConfig, env)
    /\ verifyErrors' = verifyConfig(ensureDefault(globalConfig, env))
    /\ promises' = promises
    /\ pc' = next

verifyConditions(h, next) ==
    LET resolved == ensureDefault(globalConfig, env)
        errs == verifyConfig(resolved)
    IN  /\ config' = resolved
        /\ verifyErrors' = errs
        /\ IF errs # <<>>
              THEN /\ promises' = [promises EXCEPT ![h] = Rejected(AggregateError(errs))]
                   /\ pc' = "idle"
              ELSE /\ promises' = promises
                   /\ pc' = next

PrepareVerify ==
    /\ pc = "p_verify"
    /\ verifyConditions("prepare", "pr_assets")
    /\ UNCHANGED <<inputVars, localBranches, head, hook, ops, calls, log, branches, idx, errors>>

SuccessVerify ==
    /\ pc = "s_verify"
    /\ verifyConditions("success", "gb_filter")
    /\ UNCHANGED <<inputVars, localBranches, head, hook, ops, calls, log, branches, idx, errors>>

(***************************************************************************)
(* src/lib/requests.ts: processRequest, called and not awaited by prepare. *)
(* Its synchronous part runs inside the call; what it throws rejects the   *)
(* promise it returns.                                                     *)
(***************************************************************************)
\* ProcessAssets without the early return on an empty assets list
ProcessAssetsNoEarlyReturn ==
    /\ pc = "pr_assets"
    /\ promises' = [promises EXCEPT !.process = Pending]
    /\ pc' = "pr_checkout"
    /\ UNCHANGED <<inputVars, localBranches, head, config, verifyErrors, hook, ops, calls, log,
                   branches, idx, errors>>

ProcessAssets ==
    /\ pc = "pr_assets"
    /\ IF Len(config.assets.v) = 0
          THEN /\ promises' = [promises EXCEPT !.process = Fulfilled]
               /\ pc' = "p_return"
          ELSE /\ promises' = [promises EXCEPT !.process = Pending]
               /\ pc' = "pr_checkout"
    /\ UNCHANGED <<inputVars, localBranches, head, config, verifyErrors, hook, ops, calls, log,
                   branches, idx, errors>>

\* a catch block around the git steps that swallows the error and lets processRequest go on
ThrowPushAssetsSwallowed ==
    /\ promises' = promises
    /\ pc' = "pr_createPR"

\* the catch block around the git steps
ThrowPushAssets ==
    /\ promises' = [promises EXCEPT !.process = Rejected(EPUSHASSETS)]
    /\ pc' = "p_return"

\* git checkout -b <branch>: fails when the branch exists, creates and checks it out otherwise
checkout(branch, next) ==
    /\ ops' = Append(ops, GitOp("checkout", branch, FALSE))
    /\ \E ok \in BOOLEAN :
        /\ ok => branch \notin localBranches
        /\ IF ok
              THEN /\ localBranches' = localBranches \cup {branch}
                   /\ head' = branch
                   /\ promises' = promises
                   /\ pc' = next
              ELSE /\ UNCHANGED <<localBranches, head>>
                   /\ ThrowPushAssets

ProcessCheckout ==
    /\ pc = "pr_checkout"
    /\ checkout(changesBranch, "pr_add")
    /\ UNCHANGED <<inputVars, config, verifyErrors, hook, calls, log, branches, idx, errors>>

ProcessAdd ==
    /\ pc = "pr_add"
    /\ ops' = Append(ops, GitOp("add", <<>>, FALSE))
    /\ \E ok \in BOOLEAN :
        IF ok THEN promises' = promises /\ pc' = "pr_commit" ELSE ThrowPushAssets
    /\ UNCHANGED <<inputVars, localBranches, head, config, verifyErrors, hook, calls, log,
                   branches, idx, errors>>

ProcessCommit ==
    /\ pc = "pr_commit"
    /\ ops' = Append(ops, GitOp("commit", <<>>, FALSE))
    /\ \E ok \in BOOLEAN :
        IF ok THEN promises' = promises /\ pc' = "pr_push" ELSE ThrowPushAssets
    /\ UNCHANGED <<inputVars, localBranches, head, config, verifyErrors, hook, calls, log,
                   branches, idx, errors>>

\* git push <remote> HEAD:<branch> [--dry-run]
push(branch, dryRun) == GitOp("push", branch, Truthy(dryRun))

ProcessPush ==
    /\ pc = "pr_push"
    /\ log' = IF Truthy(config.dryRun)
                 THEN Append(log, Line("log", <<"Running with --dry-run, push will not update remote state.">>))
                 ELSE log
    /\ ops' = Append(ops, push(changesBranch, config.dryRun))
    /\ \E ok \in BOOLEAN :
        IF ok THEN promises' = promises /\ pc' = "pr_back" ELSE ThrowPushAssets
    /\ UNCHANGED <<inputVars, localBranches, head, config, verifyErrors, hook, calls,
                   branches, idx, errors>>

ProcessCheckoutBack ==
    /\ pc = "pr_back"
    /\ checkout(releaseBranch, "pr_createPR")
    /\ UNCHANGED <<inputVars, config, verifyErrors, hook, calls, log, branches, idx, errors>>

FailedRequestLine == Line("error", <<"Failed to create pull request.">>)

\* ProcessCreatePR with the two ends of the request exchanged
ProcessCreatePRSwapped ==
    /\ pc = "pr_createPR"
    /\ \E outcome \in {"pending", "threw"} :
        /\ calls' = Append(calls, Call("processRequest", releaseBranch, changesBranch, outcome))
        /\ IF outcome = "threw"
              THEN /\ log' = Append(log, FailedRequestLine)
                   /\ promises' = [promises EXCEPT !.process = Fulfilled]
              ELSE /\ log' = log
                   /\ promises' = promises
    /\ pc' = "p_return"
    /\ UNCHANGED <<inputVars, localBranches, head, config, verifyErrors, hook, ops,
                   branches, idx, errors>>

\* await createPR(...): the call throws at once, or returns a promise and processRequest is
\* suspended, which gives the control back to prepare
ProcessCreatePR ==
    /\ pc = "pr_createPR"
    /\ \E outcome \in {"pending", "threw"} :
        /\ calls' = Append(calls, Call("processRequest", changesBranch, releaseBranch, outcome))
        /\ IF outcome = "threw"
              THEN /\ log' = Append(log, FailedRequestLine)
                   /\ promises' = [promises EXCEPT !.process = Fulfilled]
              ELSE /\ log' = log
                   /\ promises' = promises
    /\ pc' = "p_return"
    /\ UNCHANGED <<inputVars, localBranches, head, config, verifyErrors, hook, ops,
                   branches, idx, errors>>

\* SettleProcess without the catch block around createPR: a rejection reaches the caller
SettleProcessRethrows ==
    /\ StackEmpty
    /\ \E i \in DOMAIN calls :
        /\ calls[i].by = "processRequest"
        /\ calls[i].state = "pending"
        /\ \E outcome \in {"fulfilled", "rejected"} :
            /\ calls' = [calls EXCEPT ![i].state = outcome]
            /\ promises' = [promises EXCEPT !.process =
                                IF outcome = "rejected" THEN Rejected(GitError) ELSE Fulfilled]
    /\ UNCHANGED <<inputVars, localBranches, head, config, verifyErrors, hook, pc, ops, log,
                   branches, idx, errors>>

\* the promise of createPR settles and processRequest resumes
SettleProcess ==
    /\ StackEmpty
    /\ \E i \in DOMAIN calls :
        /\ calls[i].by = "processRequest"
        /\ calls[i].state = "pending"
        /\ \E outcome \in {"fulfilled", "rejected"} :
            /\ calls' = [calls EXCEPT ![i].state = outcome]
            /\ log' = IF outcome = "rejected" THEN Append(log, FailedRequestLine) ELSE log
    /\ promises' = [promises EXCEPT !.process = Fulfilled]
    /\ UNCHANGED <<inputVars, localBranches, head, config, verifyErrors, hook, pc, ops,
                   branches, idx, errors>>

\* index.ts: prepare reaches its end without having awaited processRequest
PrepareReturn ==
    /\ pc = "p_return"
    /\ promises' = [promises EXCEPT !.prepare = Fulfilled]
    /\ pc' = "idle"
    /\ UNCHANGED <<inputVars, localBranches, head, config, verifyErrors, hook, ops, calls, log,
                   branches, idx, errors>>

(***************************************************************************)
(* index.ts: the catch block of success.  AggregateError is there the      *)
(* global class, of which the errors of the aggregate-error package are    *)
(* no instances.                                                           *)
(***************************************************************************)
successCatch(error) ==
    IF error.class = "globalThis.AggregateError" \/ error.class = "SemanticReleaseError"
        THEN error
        ELSE ERCPULLREQUESTS

\* callee throws error (createRequests: rejects with it) and the catch block of success runs
ThrowInSuccess(callee, error) ==
    /\ promises' = [promises EXCEPT ![callee] = Rejected(error),
                                    !.success = Rejected(successCatch(error))]
    /\ pc' = "idle"

\* getBranches returns and success calls createRequests
ReturnBranches ==
    promises' = [promises EXCEPT !.getBranches = Fulfilled, !.create = Pending]

(***************************************************************************)
(* src/lib/requests.ts: getBranches, called by success.                    *)
(***************************************************************************)
\* GetBranchesFilter without the early return
GetBranchesFilterAlwaysFetches ==
    /\ pc = "gb_filter"
    /\ log' = Append(log, Line("log", <<"Current branch matches following configured candidates.">>))
    /\ pc' = "gb_fetch"
    /\ idx' = 1
    /\ errors' = <<>>
    /\ UNCHANGED <<inputVars, localBranches, head, config, verifyErrors, hook, ops, calls,
                   promises, branches>>

GetBranchesFilter ==
    /\ pc = "gb_filter"
    /\ IF Len(appropriatesOf(releaseBranch, config)) = 0
          THEN /\ log' = Append(log, Line("log", <<"Current branch doesn't match any configured candidates.">>))
               /\ branches' = <<>>
               /\ ReturnBranches
               /\ pc' = "s_loop"
          ELSE /\ log' = Append(log, Line("log", <<"Current branch matches following configured candidates.">>))
               /\ branches' = branches
               /\ promises' = promises
               /\ pc' = "gb_fetch"
    /\ idx' = 1
    /\ errors' = <<>>
    /\ UNCHANGED <<inputVars, localBranches, head, config, verifyErrors, hook, ops, calls>>

\* GetBranchesFetch wrapping the error of git into an error of its own
GetBranchesFetchWraps ==
    /\ pc = "gb_fetch"
    /\ ops' = Append(ops, GitOp("fetch", config.repositoryUrl.v, FALSE))
    /\ \E ok \in BOOLEAN :
        IF ok THEN promises' = promises /\ pc' = "gb_ls"
              ELSE ThrowInSuccess("getBranches", ERCPULLREQUESTS)
    /\ UNCHANGED <<inputVars, localBranches, head, config, verifyErrors, hook, calls, log,
                   branches, idx, errors>>

GetBranchesFetch ==
    /\ pc = "gb_fetch"
    /\ ops' = Append(ops, GitOp("fetch", config.repositoryUrl.v, FALSE))
    /\ \E ok \in BOOLEAN :
        IF ok THEN promises' = promises /\ pc' = "gb_ls"
              ELSE ThrowInSuccess("getBranches", GitError)
    /\ UNCHANGED <<inputVars, localBranches, head, config, verifyErrors, hook, calls, log,
                   branches, idx, errors>>

GetBranchesLs ==
    /\ pc = "gb_ls"
    /\ ops' = Append(ops, GitOp("ls", config.repositoryUrl.v, FALSE))
    /\ \E ok \in BOOLEAN :
        IF ok
           THEN LET found == filterBranches(releaseBranch,
                                            appropriatesOf(releaseBranch, config), ls(lsStdout))
                IN  /\ branches' = found
                    /\ log' = Append(log,
                                IF Len(found) = 0
                                   THEN Line("log", <<"No configured candidates is present in remote origin, no pull request to create.">>)
                                   ELSE Line("log", <<"Retrieved following branches present in remote origin.">>))
                    /\ ReturnBranches
                    /\ pc' = "s_loop"
           ELSE /\ UNCHANGED <<branches, log>>
                /\ ThrowInSuccess("getBranches", GitError)
    /\ UNCHANGED <<inputVars, localBranches, head, config, verifyErrors, hook, calls,
                   idx, errors>>

(***************************************************************************)
(* src/lib/requests.ts: createRequests, awaited by success.                *)
(***************************************************************************)
\* CreateRequestsDryRun without the continue: the line is logged and the request created
CreateRequestsDryRunNoContinue ==
    /\ pc = "s_loop"
    /\ idx <= Len(branches)
    /\ Truthy(config.dryRun)
    /\ log' = Append(log, Line("log", <<"Running with --dry-run, created pull request would have been from into.">>
                                        \o branches[idx]))
    /\ calls' = Append(calls, Call("createRequests", releaseBranch, branches[idx], "pending"))
    /\ pc' = "s_await"
    /\ UNCHANGED <<inputVars, localBranches, head, config, verifyErrors, hook, ops,
                   promises, branches, idx, errors>>

CreateRequestsDryRun ==
    /\ pc = "s_loop"
    /\ idx <= Len(branches)
    /\ Truthy(config.dryRun)
    /\ log' = Append(log, Line("log", <<"Running with --dry-run, created pull request would have been from into.">>
                                        \o branches[idx]))
    /\ idx' = idx + 1
    /\ UNCHANGED <<inputVars, localBranches, head, config, verifyErrors, hook, pc, ops, calls,
                   promises, branches, errors>>

\* CreateRequestsCall without the await: the loop goes on while the call is in flight
CreateRequestsCallNoAwait ==
    /\ pc = "s_loop"
    /\ idx <= Len(branches)
    /\ ~Truthy(config.dryRun)
    /\ \E outcome \in {"pending", "threw"} :
        /\ calls' = Append(calls, Call("createRequests", releaseBranch, branches[idx], outcome))
        /\ errors' = IF outcome = "threw"
                         THEN Append(errors, EPULLREQUEST(releaseBranch, branches[idx]))
                         ELSE errors
    /\ idx' = idx + 1
    /\ pc' = "s_loop"
    /\ UNCHANGED <<inputVars, localBranches, head, config, verifyErrors, hook, ops, log,
                   promises, branches>>

\* await createPR(...) inside the loop: the call throws at once, or createRequests is
\* suspended until the promise settles
CreateRequestsCall ==
    /\ pc = "s_loop"
    /\ idx <= Len(branches)
    /\ ~Truthy(config.dryRun)
    /\ \E outcome \in {"pending", "threw"} :
        /\ calls' = Append(calls, Call("createRequests", releaseBranch, branches[idx], outcome))
        /\ IF outcome = "threw"
              THEN /\ errors' = Append(errors, EPULLREQUEST(releaseBranch, branches[idx]))
                   /\ idx' = idx + 1
                   /\ pc' = "s_loop"
              ELSE /\ UNCHANGED <<errors, idx>>
                   /\ pc' = "s_await"
    /\ UNCHANGED <<inputVars, localBranches, head, config, verifyErrors, hook, ops, log,
                   promises, branches>>

\* SettleCreate leaving the loop at the first rejected call
SettleCreateBreaks ==
    /\ pc = "s_await"
    /\ \E i \in DOMAIN calls :
        /\ calls[i].by = "createRequests"
        /\ calls[i].state = "pending"
        /\ \E outcome \in {"fulfilled", "rejected"} :
            /\ calls' = [calls EXCEPT ![i].state = outcome]
            /\ errors' = IF outcome = "rejected"
                             THEN Append(errors, EPULLREQUEST(releaseBranch, branches[idx]))
                             ELSE errors
            /\ idx' = IF outcome = "rejected" THEN Len(branches) + 1 ELSE idx + 1
    /\ pc' = "s_loop"
    /\ UNCHANGED <<inputVars, localBranches, head, config, verifyErrors, hook, ops, log,
                   promises, branches>>

\* the promise of createPR settles and the loop resumes
SettleCreate ==
    /\ pc = "s_await"
    /\ \E i \in DOMAIN calls :
        /\ calls[i].by = "createRequests"
        /\ calls[i].state = "pending"
        /\ \E outcome \in {"fulfilled", "rejected"} :
            /\ calls' = [calls EXCEPT ![i].state = outcome]
            /\ errors' = IF outcome = "rejected"
                             THEN Append(errors, EPULLREQUEST(releaseBranch, branches[idx]))
                             ELSE errors
    /\ idx' = idx + 1
    /\ pc' = "s_loop"
    /\ UNCHANGED <<inputVars, localBranches, head, config, verifyErrors, hook, ops, log,
                   promises, branches>>

\* the end of the loop, and with it the end of success
CreateRequestsEnd ==
    /\ pc = "s_loop"
    /\ idx > Len(branches)
    /\ IF Len(errors) > 0
          THEN ThrowInSuccess("create", AggregateError(errors))
          ELSE /\ promises' = [promises EXCEPT !.create = Fulfilled, !.success = Fulfilled]
               /\ pc' = "idle"
    /\ UNCHANGED <<inputVars, localBranches, head, config, verifyErrors, hook, ops, calls, log,
                   branches, idx, errors>>

(***************************************************************************)
(* ensureDefault and verifyConfig called on their own, as the tests do.    *)
(***************************************************************************)
EnsureDefaultStep ==
    /\ pc = "c_input"
    /\ config' = ensureDefault(globalConfig, env)
    /\ pc' = "c_defaulted"
    /\ UNCHANGED <<inputVars, localBranches, head, verifyErrors, hook, ops, calls, log,
                   promises, branches, idx, errors>>

VerifyConfigStep ==
    /\ pc = "c_defaulted"
    /\ verifyErrors' = verifyConfig(config)
    /\ pc' = "c_verified"
    /\ UNCHANGED <<inputVars, localBranches, head, config, hook, ops, calls, log,
                   promises, branches, idx, errors>>

(***************************************************************************)
(* The inputs.                                                             *)
(***************************************************************************)
BoundedSeq(S, n) == UNION {[1..k -> S] : k \in 0..n}

EmptyEnv == [name \in Range(EnvVars) |-> Undef]

\* the environments with at most MaxEnvSet of these variables set, each to a value of its own
\* or to ""
EnvsOf(names, values) ==
    UNION {{[name \in Range(EnvVars) |->
                IF name \in S THEN (IF f[name] = "value" THEN Str(<<name>>) ELSE Str(<<>>))
                ELSE Undef] :
                f \in [S -> values]} :
           S \in {T \in SUBSET names : Cardinality(T) <= MaxEnvSet}}

BranchNames == {<<"a">>, <<"b">>, <<"a", "b">>}
Version == <<"1.0.0">>

\* a line of git ls-remote --heads: <sha>\trefs/heads/<name>
RemoteLine(name) == <<(<<"sha">>), <<RefsHeads>> \o name>>
Remotes == BoundedSeq({RemoteLine(name) : name \in BranchNames}, MaxRemote)

FromPatterns == {<<"a">>, <<"b">>}
ToPatterns == {<<"b">>, <<"a", Bar, "b">>, <<>>}
Candidates == {Candidate(Str(from), Str(to)) : from \in FromPatterns, to \in ToPatterns}

RepositoryUrl == <<"git@github.com:", "owner", "/", "repo", ".git">>
BaseUrl == <<"https://example.com">>
TokenEnv == [EmptyEnv EXCEPT !["GITHUB_TOKEN"] = Str(<<"some token">>)]

\* a configuration that verifyConfig accepts under TokenEnv
ValidInput ==
    [apiPathPrefix |-> Undef, assets |-> Undef, baseUrl |-> Str(BaseUrl), candidates |-> Undef,
     commit |-> Undef, debug |-> Bool(FALSE), dryRun |-> Bool(FALSE), platform |-> Str(GITHUB),
     repositoryUrl |-> Str(RepositoryUrl), title |-> Undef, token |-> Undef]

InitRest ==
    /\ config = NoConfig
    /\ verifyErrors = <<>>
    /\ hook = "none"
    /\ ops = <<>>
    /\ calls = <<>>
    /\ log = <<>>
    /\ promises = [prepare |-> NotStarted, process |-> NotStarted, success |-> NotStarted,
                   getBranches |-> NotStarted, create |-> NotStarted]
    /\ branches = <<>>
    /\ idx = 1
    /\ errors = <<>>

\* the working directory is on the release branch, or on a detached HEAD
InitGit ==
    /\ localBranches \in SUBSET {releaseBranch, changesBranch}
    /\ head = IF releaseBranch \in localBranches THEN releaseBranch ELSE <<"HEAD">>

(***************************************************************************)
(* Spec: a run of the host, prepare and then success or success alone.     *)
(***************************************************************************)
RunCandidates ==
    {<<>>, <<Candidate(Str(<<"a">>), Str(<<"a", Bar, "b">>))>>,
     <<Candidate(Str(<<"a">>), Str(<<>>))>>}

Init ==
    /\ \E assets \in {Undef, Arr(<<Str(<<"dist">>)>>)}, dryRun \in {Bool(FALSE), Bool(TRUE)},
          candidates \in RunCandidates :
            globalConfig = [ValidInput EXCEPT !.assets = assets, !.dryRun = dryRun,
                                              !.candidates = Arr(candidates)]
    /\ env \in {EmptyEnv, TokenEnv}
    /\ context = [branch |-> <<"a">>, version |-> Version]
    /\ lsStdout \in Remotes
    /\ InitGit
    /\ pc = "idle"
    /\ InitRest

Next ==
    \/ StartPrepare
    \/ PrepareVerify
    \/ ProcessAssets
    \/ ProcessCheckout
    \/ ProcessAdd
    \/ ProcessCommit
    \/ ProcessPush
    \/ ProcessCheckoutBack
    \/ ProcessCreatePR
    \/ SettleProcess
    \/ PrepareReturn
    \/ StartSuccess
    \/ SuccessVerify
    \/ GetBranchesFilter
    \/ GetBranchesFetch
    \/ GetBranchesLs
    \/ CreateRequestsDryRun
    \/ CreateRequestsCall
    \/ SettleCreate
    \/ CreateRequestsEnd

Spec == Init /\ [][Next]_vars

(***************************************************************************)
(* SpecConfig: ensureDefault, then verifyConfig, on partial configurations *)
(* and environments: the inputs of the defaulting (few fields, many        *)
(* environments) and the inputs of the validation (every field right or    *)
(* wrong, few environments).                                               *)
(***************************************************************************)
Envs == EnvsOf(Range(EnvVars), {"value", "empty"})

DefaultingInputs ==
    {[ValidInput EXCEPT !.baseUrl = baseUrl, !.apiPathPrefix = apiPathPrefix,
                        !.platform = platform, !.token = token] :
        baseUrl \in {Undef, Str(<<>>), Str(BaseUrl)},
        apiPathPrefix \in {Undef, Str(<<>>), Str(<<"/api/v3">>)},
        platform \in {Undef, Str(NULL), Str(GITLAB)},
        token \in {Undef, Str(<<"some token">>)}}

ValidationInputs ==
    [apiPathPrefix : {Undef, Obj},
     assets : {Undef, Arr(<<Str(<<"dist">>)>>), Arr(<<Str(<<"dist">>), Str(<<>>)>>),
               Arr(<<Obj>>), Str(<<>>)},
     baseUrl : {Str(BaseUrl), Undef, Obj},
     candidates : {Undef, Arr(<<Candidate(Str(<<"a">>), Str(<<"b">>))>>),
                   Arr(<<Candidate(Str(<<"a">>), Str(<<>>))>>),
                   Arr(<<Candidate(Undef, Str(<<"b">>))>>), Str(<<>>)},
     commit : {Undef, Str(<<>>)},
     debug : {Undef, Obj},
     dryRun : {Bool(TRUE), Obj},
     platform : {Str(GITHUB), Str(<<"some invalid value">>), Undef},
     repositoryUrl : {Str(RepositoryUrl), Undef},
     title : {Undef, Obj},
     token : {Undef}]

InitConfig ==
    /\ \/ globalConfig \in DefaultingInputs /\ env \in Envs
       \/ globalConfig \in ValidationInputs /\ env \in {EmptyEnv, TokenEnv}
    /\ context = [branch |-> <<"a">>, version |-> Version]
    /\ lsStdout = <<>>
    /\ localBranches = {releaseBranch}
    /\ head = releaseBranch
    /\ pc = "c_input"
    /\ InitRest

NextConfig ==
    \/ EnsureDefaultStep
    \/ VerifyConfigStep

SpecConfig == InitConfig /\ [][NextConfig]_vars

(***************************************************************************)
(* SpecBranches: the success hook alone, on many candidates and remotes.   *)
(***************************************************************************)
InitBranches ==
    /\ \E candidates \in BoundedSeq(Candidates, MaxCandidates), dryRun \in {Bool(FALSE), Bool(TRUE)} :
            globalConfig = [ValidInput EXCEPT !.candidates = Arr(candidates), !.dryRun = dryRun]
    /\ env = TokenEnv
    /\ context \in {[branch |-> name, version |-> Version] : name \in {<<"a">>, <<"a", "b">>}}
    /\ lsStdout \in Remotes
    /\ localBranches = {releaseBranch}
    /\ head = releaseBranch
    /\ pc = "idle"
    /\ InitRest

NextBranches ==
    \/ StartSuccess
    \/ SuccessVerify
    \/ GetBranchesFilter
    \/ GetBranchesFetch
    \/ GetBranchesLs
    \/ CreateRequestsDryRun
    \/ CreateRequestsCall
    \/ SettleCreate
    \/ CreateRequestsEnd

SpecBranches == InitBranches /\ [][NextBranches]_vars

(***************************************************************************)
(* Claims.                                                                 *)
(***************************************************************************)
PushAssetsFailed == promises.process = Rejected(EPUSHASSETS)

\* C1: when the creation of the asset branch fails (checkout of the new branch, add, commit,
\* push or checkout back raises), the promise returned by prepare rejects with a
\* SemanticReleaseError of code EPUSHASSETS: prepare never fulfils after such a failure.
C1_PrepareRejectsOnAssetFailure ==
    (PushAssetsFailed /\ promises.prepare.state # "pending")
        => promises.prepare = Rejected(EPUSHASSETS)

\* C2: when dryRun is true, push is only ever invoked with the dry-run flag and createPR is
\* never called, neither by processRequest nor by createRequests.
C2_DryRunNoRemoteMutation ==
    Truthy(config.dryRun)
        => /\ \A i \in DOMAIN ops : ops[i].op = "push" => ops[i].dry
           /\ calls = <<>>

FailedProcessCalls ==
    {i \in DOMAIN calls : calls[i].by = "processRequest" /\ calls[i].state \in {"rejected", "threw"}}

ErrorLines == SelectSeq(log, LAMBDA line : line.level = "error")

\* C3: in processRequest, once the asset branch has been pushed, a createPR that raises or
\* rejects is logged through context.logger.error and swallowed: the promise of processRequest
\* fulfils and no error reaches prepare.
C3_RequestFailureSwallowed ==
    FailedProcessCalls # {}
        => /\ promises.process = Fulfilled
           /\ ErrorLines = <<FailedRequestLine>>
           /\ promises.prepare.state # "rejected"

C3_Witness ==
    /\ \E i \in FailedProcessCalls : calls[i].state = "rejected"
    /\ \E j \in DOMAIN ops : ops[j].op = "push" /\ ~ops[j].dry
    /\ promises.prepare = Fulfilled

\* C5: in prepare and in success, when verifyConfig rejects the resolved configuration the
\* hook fails, its promise rejecting with the aggregated errors, without any git command
\* (checkout, add, commit, push, fetch, ls) or createPR call having been issued.
C5_ConfigErrorsBeforeMutation ==
    verifyErrors # <<>>
        => /\ ops = <<>>
           /\ calls = <<>>
           /\ promises[hook] = Rejected(AggregateError(verifyErrors))

C5_Witness ==
    /\ verifyErrors # <<>>
    /\ hook = "prepare"
    /\ Len(config.assets.v) > 0
    /\ promises.prepare.state = "rejected"

CreateCalls == {i \in DOMAIN calls : calls[i].by = "createRequests"}

\* C10: during createRequests at most one createPR call is in flight at any moment, and the
\* call for a branch starts only after the call for the previous branch has settled.
C10_OneRequestAtATime ==
    /\ Cardinality({i \in CreateCalls : calls[i].state = "pending"}) <= 1
    /\ \A i, j \in CreateCalls : i < j => calls[i].state # "pending"

C10_Witness ==
    \E i, j \in CreateCalls :
        /\ i < j
        /\ calls[i].state = "rejected"
        /\ calls[j].state = "pending"
        /\ calls[i].to # calls[j].to

\* the branches the claim describes: those ls lists, in its order, that differ from the
\* release branch and match the 'to' of a candidate whose 'from' matches the release branch
ExpectedBranches ==
    SelectSeq(ls(lsStdout),
        LAMBDA b : /\ b # releaseBranch
                   /\ \E i \in DOMAIN config.candidates.v :
                        /\ match(releaseBranch, fromOf(config.candidates.v[i]).v)
                        /\ match(b, toOf(config.candidates.v[i]).v))

GetBranchesReturned == pc \in {"s_loop", "s_await"}

\* C4: getBranches returns exactly the remote branches, in the order ls lists them, that
\* differ from the release branch and match the 'to' regex of at least one candidate whose
\* 'from' regex matches the release branch.
C4_GetBranchesExact == GetBranchesReturned => branches = ExpectedBranches

C4_Witness ==
    /\ GetBranchesReturned
    /\ branches # <<>>
    /\ releaseBranch \in Range(ls(lsStdout))
    /\ Len(appropriatesOf(releaseBranch, config)) > 0
    /\ Len(config.candidates.v) > Len(appropriatesOf(releaseBranch, config))

NonEmptyString(x) == x.t = "string" /\ x.v # <<>>

\* the constraint of each field, as the claim and the error details state it
FieldValid(key, value) ==
    CASE key = "apiPathPrefix" -> value.t = "string"
      [] key = "assets" ->
            value.t = "array" /\ \A i \in DOMAIN value.v : NonEmptyString(value.v[i])
      [] key = "candidates" ->
            /\ value.t = "array"
            /\ \A i \in DOMAIN value.v :
                /\ value.v[i].t = "candidate"
                /\ NonEmptyString(value.v[i].v[1])
                /\ NonEmptyString(value.v[i].v[2])
      [] key \in {"debug", "dryRun"} -> value.t = "boolean"
      [] key = "platform" ->
            /\ value.t = "string"
            /\ value.v \in {<<"bitbucket">>, <<"bitbucket-cloud">>, <<"gitea">>, <<"github">>,
                            <<"gitlab">>}
      [] OTHER -> NonEmptyString(value)

ExpectedCode ==
    [apiPathPrefix |-> "APIPATHPREFIX", assets |-> "ASSETS", baseUrl |-> "BASEURL",
     candidates |-> "CANDIDATES", commit |-> "COMMIT", debug |-> "DEBUG", dryRun |-> "DRYRUN",
     platform |-> "PLATFORM", repositoryUrl |-> "REPOSITORYURL", title |-> "TITLE",
     token |-> "TOKEN"]

InvalidFields == {key \in Range(ConfigKeys) : ~FieldValid(key, config[key])}

ErrorsOfField(key) ==
    {i \in DOMAIN verifyErrors : verifyErrors[i].code = <<"EINVALID", ExpectedCode[key]>>}

\* C6: verifyConfig throws if and only if at least one field violates its constraint, and the
\* AggregateError then holds exactly one error per invalid field, none for a valid field,
\* each a SemanticReleaseError with code EINVALID<FIELD NAME IN UPPER CASE> and the message of
\* that field; a configuration whose eleven fields are valid is accepted.
C6_OneErrorPerInvalidField ==
    pc = "c_verified"
        => /\ (verifyErrors # <<>>) <=> (InvalidFields # {})
           /\ Len(verifyErrors) = Cardinality(InvalidFields)
           /\ \A key \in Range(ConfigKeys) :
                /\ Cardinality(ErrorsOfField(key)) = IF key \in InvalidFields THEN 1 ELSE 0
                /\ \A i \in ErrorsOfField(key) :
                    /\ verifyErrors[i].class = "SemanticReleaseError"
                    /\ verifyErrors[i].message = configErrors(key)

C6_Witness ==
    /\ pc = "c_verified"
    /\ InvalidFields = {"assets", "candidates", "platform", "token"}
    /\ Len(verifyErrors) = Cardinality(InvalidFields)
    /\ config.assets.t = "array"
    /\ config.candidates.t = "array"

UrlSet == {i \in DOMAIN UrlVars : ~Nullish(env[UrlVars[i]])}
Winner == UrlVars[CHOOSE i \in UrlSet : \A j \in UrlSet : i <= j]

InferredPlatform ==
    IF UrlSet = {} THEN NULL
    ELSE CASE Winner = "BITBUCKET_URL" -> <<"bitbucket">>
           [] Winner = "BITBUCKET_CLOUD_URL" -> <<"bitbucket-cloud">>
           [] Winner = "GITEA_URL" -> <<"gitea">>
           [] Winner \in {"GH_URL", "GITHUB_URL", "GITHUB_API_URL"} -> <<"github">>
           [] Winner \in {"GL_URL", "GITLAB_URL", "CI_SERVER_URL"} -> <<"gitlab">>

DefaultPrefix ==
    CASE InferredPlatform = <<"bitbucket">> -> <<"/rest/api/1.0">>
      [] InferredPlatform = <<"bitbucket-cloud">> -> <<"/2.0">>
      [] InferredPlatform = <<"gitea">> -> <<"/api/v1">>
      [] InferredPlatform = <<"gitlab">> -> <<"/api/v4">>
      [] OTHER -> <<>>

Defaulted == pc \in {"c_defaulted", "c_verified"}
EverySetVariableNonEmpty == \A name \in Range(EnvVars) : env[name] # Str(<<>>)

\* C7: with no config.baseUrl and every set variable non-empty, the resolved baseUrl is the
\* value of the first URL variable set, in the order BITBUCKET_URL, BITBUCKET_CLOUD_URL,
\* GITEA_URL, GH_URL, GITHUB_URL, GITHUB_API_URL, GL_URL, GITLAB_URL, CI_SERVER_URL, or ''
\* when none is set; the platform is config.platform when explicit and else the platform of
\* that variable; apiPathPrefix is config.apiPathPrefix when explicit and else the default
\* prefix of that platform.
C7_EnvironmentDefaults ==
    (Defaulted /\ Nullish(globalConfig.baseUrl) /\ EverySetVariableNonEmpty)
        => /\ config.baseUrl = IF UrlSet = {} THEN Str(<<>>) ELSE env[Winner]
           /\ config.platform =
                IF Nullish(globalConfig.platform) THEN Str(InferredPlatform)
                ELSE globalConfig.platform
           /\ config.apiPathPrefix =
                IF Nullish(globalConfig.apiPathPrefix) THEN Str(DefaultPrefix)
                ELSE globalConfig.apiPathPrefix

\* C8: when config.baseUrl is a non-empty string the environment URL variables play no part:
\* the resolved baseUrl is config.baseUrl, apiPathPrefix is config.apiPathPrefix or '' and
\* platform is config.platform or the NULL platform; without config.platform verifyConfig
\* rejects the configuration with the 'platform' error.
C8_BaseUrlOverridesEnvironment ==
    (Defaulted /\ NonEmptyString(globalConfig.baseUrl))
        => /\ config.baseUrl = globalConfig.baseUrl
           /\ config.apiPathPrefix =
                IF Nullish(globalConfig.apiPathPrefix) THEN Str(<<>>)
                ELSE globalConfig.apiPathPrefix
           /\ config.platform =
                IF Nullish(globalConfig.platform) THEN Str(NULL) ELSE globalConfig.platform
           /\ (pc = "c_verified" /\ Nullish(globalConfig.platform))
                => \E i \in DOMAIN verifyErrors :
                        /\ verifyErrors[i].code = <<"EINVALID", "PLATFORM">>
                        /\ verifyErrors[i].message = <<"Invalid 'platform' configuration.">>

C8_Witness ==
    /\ pc = "c_verified"
    /\ NonEmptyString(globalConfig.baseUrl)
    /\ Nullish(globalConfig.platform)
    /\ Nullish(globalConfig.apiPathPrefix)
    /\ env["GITLAB_URL"] = Str(<<"GITLAB_URL">>)
    /\ env["BITBUCKET_URL"] = Str(<<"BITBUCKET_URL">>)
    /\ config.platform = Str(NULL)

TokenSet == {i \in DOMAIN TokenVars : ~Nullish(env[TokenVars[i]])}

\* C9: the resolved token never depends on config.token: configurations differing only in
\* their token resolve to the same result under the same environment, the token being the
\* first defined of BB_TOKEN, BITBUCKET_TOKEN, GITEA_TOKEN, GH_TOKEN, GITHUB_TOKEN, GL_TOKEN,
\* GITLAB_TOKEN, or '' when none is defined.
C9_TokenFromEnvironmentOnly ==
    Defaulted
        => /\ config.token =
                IF TokenSet = {} THEN Str(<<>>)
                ELSE env[TokenVars[CHOOSE i \in TokenSet : \A j \in TokenSet : i <= j]]
           /\ \A token \in {Undef, Str(<<>>), Str(<<"some token">>), Str(<<"another token">>)} :
                ensureDefault([globalConfig EXCEPT !.token = token], env) = config

C9_Witness ==
    /\ Defaulted
    /\ globalConfig.token = Str(<<"some token">>)
    /\ env["BB_TOKEN"] = Undef
    /\ env["GH_TOKEN"] = Str(<<"GH_TOKEN">>)
    /\ env["GITLAB_TOKEN"] = Str(<<"GITLAB_TOKEN">>)
    /\ config.token = Str(<<"GH_TOKEN">>)

(***************************************************************************)
(* createRequests outside dry-run.                                         *)
(***************************************************************************)
CreateSeq == SelectSeq(calls, LAMBDA c : c.by = "createRequests")

\* the errors createRequests has to hold after these calls: one per failed call, in order
ErrorsOf(cs) ==
    LET failed == SelectSeq(cs, LAMBDA c : c.state \in {"threw", "rejected"})
    IN  [i \in 1..Len(failed) |-> EPULLREQUEST(failed[i].from, failed[i].to)]

CreateSettled == promises.create.state \in {"fulfilled", "rejected"}

FetchLs == SelectSeq(ops, LAMBDA o : o.op \in {"fetch", "ls"})

GetBranchesDone == promises.getBranches.state \in {"fulfilled", "rejected"}

\* C12: when no candidate's 'from' matches the release branch, getBranches returns the empty
\* list and has called neither fetch nor ls.
C12_NoMatchNoRemoteAccess ==
    (GetBranchesDone /\ Len(appropriatesOf(releaseBranch, config)) = 0)
        => /\ promises.getBranches = Fulfilled
           /\ branches = <<>>
           /\ FetchLs = <<>>

\* candidates are configured, none for this release branch, and the remote has branches
C12_Witness ==
    /\ GetBranchesDone
    /\ Len(config.candidates.v) > 0
    /\ Len(appropriatesOf(releaseBranch, config)) = 0
    /\ Len(ls(lsStdout)) > 0
GetBranchesPastFilter == pc \in {"gb_fetch", "gb_ls"} \/ GetBranchesDone

FetchThenLs ==
    LET F == GitOp("fetch", config.repositoryUrl.v, FALSE)
        L == GitOp("ls", config.repositoryUrl.v, FALSE)
    IN  /\ pc = "gb_fetch" => FetchLs = <<>>
        /\ pc = "gb_ls" => FetchLs = <<F>>
        /\ promises.getBranches = Fulfilled => FetchLs = <<F, L>>
        /\ promises.getBranches.state = "rejected"
            => /\ FetchLs \in {<<F>>, <<F, L>>}
               /\ promises.getBranches.reason = GitError

\* C13: when a candidate's 'from' matches the release branch, getBranches calls fetch and then
\* ls, both with config.repositoryUrl; an error of fetch leaves getBranches unchanged and ls
\* is then not called, and an error of ls leaves getBranches unchanged.
C13_FetchThenLs ==
    /\ [](GetBranchesPastFilter /\ Len(appropriatesOf(releaseBranch, config)) > 0 => FetchThenLs)
    /\ [][GetBranchesDone => FetchLs' = FetchLs]_vars

\* fetch has failed: getBranches threw the error of git and ls was not called
C13_Witness ==
    /\ Len(appropriatesOf(releaseBranch, config)) > 0
    /\ promises.getBranches = Rejected(GitError)
    /\ FetchLs = <<GitOp("fetch", config.repositoryUrl.v, FALSE)>>
    /\ pc = "idle"

\* ls has failed after a fetch that succeeded
C13_WitnessLs ==
    /\ promises.getBranches = Rejected(GitError)
    /\ Len(FetchLs) = 2
(***************************************************************************)
(* The steps of processRequest.                                            *)
(***************************************************************************)
ProcessOps == SelectSeq(ops, LAMBDA o : o.op \in {"checkout", "add", "commit", "push"})

ProcessCalls == SelectSeq(calls, LAMBDA c : c.by = "processRequest")

ExpectedOps ==
    <<GitOp("checkout", changesBranch, FALSE), GitOp("add", <<>>, FALSE),
      GitOp("commit", <<>>, FALSE), GitOp("push", changesBranch, Truthy(config.dryRun)),
      GitOp("checkout", releaseBranch, FALSE)>>

IsPrefix(s, t) == Len(s) <= Len(t) /\ \A i \in DOMAIN s : s[i] = t[i]

\* C14: processRequest runs checkout(asset branch), add, commit, push, checkout(release
\* branch) and createPR in this order; the first git step that fails stops the sequence, and
\* createPR is called only after push and the checkout back succeeded, never after a failed
\* git step.
C14_StepsInOrder ==
    /\ [](promises.process.state # "none"
            => /\ IsPrefix(ProcessOps, ExpectedOps)
               /\ PushAssetsFailed => ProcessCalls = <<>>
               /\ ProcessCalls # <<>> => ProcessOps = ExpectedOps /\ head = releaseBranch)
    /\ [][PushAssetsFailed => ProcessOps' = ProcessOps /\ ProcessCalls' = ProcessCalls]_vars

\* commit has failed: the run holds three git steps, no push and no createPR
C14_Witness ==
    /\ PushAssetsFailed
    /\ Len(ProcessOps) = 3
    /\ ProcessCalls = <<>>
    /\ promises.prepare.state = "fulfilled"

\* every git step succeeded and createPR was called
C14_WitnessAll ==
    /\ Len(ProcessCalls) = 1
    /\ ProcessOps = ExpectedOps
(***************************************************************************)
(* prepare and the promise of processRequest.                              *)
(***************************************************************************)
\* C15: prepare completes only after processRequest has completed: when the promise of
\* prepare settles, the promise of processRequest and the createPR call for the asset branch
\* have settled.
C15_PrepareAwaitsProcessRequest ==
    promises.prepare.state \in {"fulfilled", "rejected"}
        => /\ promises.process.state # "pending"
           /\ \A i \in DOMAIN ProcessCalls : ProcessCalls[i].state # "pending"

(***************************************************************************)
(* The checkout back to the release branch.                                *)
(***************************************************************************)
\* C16: when the release branch exists locally and checkout of the asset branch, add, commit
\* and push succeed, processRequest checks the release branch out again: it raises no
\* EPUSHASSETS and the working directory ends on the release branch.
C16_CheckoutBackSucceeds ==
    (Len(ProcessOps) = 5 /\ releaseBranch \in localBranches)
        => /\ ~PushAssetsFailed
           /\ head = releaseBranch
(***************************************************************************)
(* processRequest without assets.                                          *)
(***************************************************************************)
\* C17: when config.assets is empty processRequest does nothing: no checkout, add, commit or
\* push, no createPR, and no error raised or logged, whatever the rest of the configuration
\* and the context.
C17_NoAssetsNoOp ==
    (promises.process.state # "none" /\ Len(config.assets.v) = 0)
        => /\ promises.process = Fulfilled
           /\ ProcessOps = <<>>
           /\ ProcessCalls = <<>>
           /\ ErrorLines = <<>>
           /\ head # changesBranch

\* prepare has run to its end without assets
C17_Witness ==
    /\ Len(config.assets.v) = 0
    /\ promises.process = Fulfilled
    /\ promises.prepare = Fulfilled
    /\ ops = <<>>
(***************************************************************************)
(* The catch block of success.                                             *)
(***************************************************************************)
\* what getBranches or createRequests threw into the try block of success
ThrownInSuccess ==
    IF promises.getBranches.state = "rejected"
        THEN promises.getBranches.reason
        ELSE promises.create.reason

\* C18: in success an error of getBranches or createRequests that is an AggregateError or a
\* SemanticReleaseError already is rethrown unchanged, the AggregateError of EPULLREQUEST
\* errors of createRequests in particular; any other error is wrapped into one
\* SemanticReleaseError ERCPULLREQUESTS.
C18_AcceptableErrorsRethrown ==
    (promises.getBranches.state = "rejected" \/ promises.create.state = "rejected")
        => promises.success =
            Rejected(IF ThrownInSuccess.class \in {"AggregateError", "globalThis.AggregateError",
                                                   "SemanticReleaseError"}
                        THEN ThrownInSuccess
                        ELSE ERCPULLREQUESTS)
(***************************************************************************)
(* The asset branch.                                                       *)
(***************************************************************************)
AssetBranch == <<"release/">> \o context.branch \o <<"/">> \o context.version

Pushes == SelectSeq(ops, LAMBDA o : o.op = "push")

\* C19: the asset branch is release/<release branch>/<next release version>; processRequest
\* pushes HEAD to that branch and opens at most one request per run, whose source is the
\* asset branch and whose target is the release branch.
C19_AssetBranchRequest ==
    /\ Len(Pushes) <= 1
    /\ \A i \in DOMAIN Pushes : Pushes[i].arg = AssetBranch
    /\ Len(ProcessCalls) <= 1
    /\ \A i \in DOMAIN ProcessCalls :
        /\ ProcessCalls[i].from = AssetBranch
        /\ ProcessCalls[i].to = context.branch
        /\ Len(Pushes) = 1

\* the asset branch was pushed and its request created
C19_Witness ==
    /\ Len(Pushes) = 1
    /\ Len(ProcessCalls) = 1
    /\ ProcessCalls[1].state = "fulfilled"
(***************************************************************************)
(* createRequests in dry-run.                                              *)
(***************************************************************************)
DryRunPrefix == "Running with --dry-run, created pull request would have been from into."

DryRunLines == SelectSeq(log, LAMBDA line : Head(line.about) = DryRunPrefix)

ExpectedDryRunLines ==
    [i \in 1..Len(branches) |-> Line("log", <<DryRunPrefix>> \o branches[i])]

\* C20: in dry-run createRequests makes no createPR call and never throws, whatever its input
\* list: it only logs one line per branch of the list.
C20_DryRunCreatesNothing ==
    (promises.create.state # "none" /\ Truthy(config.dryRun))
        => /\ CreateSeq = <<>>
           /\ errors = <<>>
           /\ promises.create.state # "rejected"
           /\ IsPrefix(DryRunLines, ExpectedDryRunLines)
           /\ CreateSettled => DryRunLines = ExpectedDryRunLines

\* createRequests has returned in dry-run from a list of two branches
C20_Witness ==
    /\ Truthy(config.dryRun)
    /\ promises.create = Fulfilled
    /\ Len(branches) = 2
    /\ Len(DryRunLines) = 2
C22_EnsureDefaultIdempotent ==
    pc \in {"c_defaulted", "c_verified"}
        => /\ config = ensureDefault(globalConfig, env)
           /\ ensureDefault(config, env) = config

\* the first pass took the base URL, the prefix and the platform from the environment
C22_Witness ==
    /\ pc = "c_defaulted"
    /\ Nullish(globalConfig.baseUrl)
    /\ Nullish(globalConfig.platform)
    /\ Nullish(globalConfig.apiPathPrefix)
    /\ Truthy(env["GITEA_URL"])
    /\ config.platform = Str(GITEA)
    /\ ensureDefault(config, env).platform = Str(GITEA)
====
